---- MODULE Spec2Model ----
(***************************************************************************)
(* gh::BigInteger (src/BigInteger.hpp): a sign flag and a vector of        *)
(* decimal digit characters, least significant digit first, with           *)
(* construction from int and from text, +, -, *, the relational operators  *)
(* and rendering.  A BigInteger is a record [m_sign, m_data]; m_data holds *)
(* the stored chars as their codes ('0' = 48).  A text is a sequence of    *)
(* char codes.                                                             *)
(***************************************************************************)
EXTENDS Integers, Sequences, FiniteSets, TLC

VARIABLES var, out, pc, nops

vars == <<var, out, pc, nops>>

----------------------------------------------------------------------------
(* Program constants *)

BASE == 10

INT_MAX == 2147483647

INT_MIN == -INT_MAX - 1

CH_ZERO == 48

CH_NUL == 0

CH_MINUS == 45

CH_UNDERSCORE == 95

POSITIVE == "POSITIVE"

NEGATIVE == "NEGATIVE"

----------------------------------------------------------------------------
(* Bounds of the model *)

\* Nested calls the stack holds before the process dies of stack overflow.
MaxDepth == 12

\* In-place operations applied to x in one run.
MaxOps == 1

\* In-place operations are applied to x while it holds at most so many digits.
MaxDigits == 8

----------------------------------------------------------------------------
(* C++ arithmetic on int and char *)

\* int / int with a positive divisor: truncation toward zero.
CDiv(a, b) ==
    IF a >= 0 \/ a % b = 0 THEN a \div b ELSE (a \div b) + 1

\* int % int with a positive divisor: the sign of the dividend.
CRem(a, b) == a - b * CDiv(a, b)

\* char(v): the low 8 bits as a signed char.
ToChar(v) == ((v + 128) % 256) - 128

\* What a build makes of a signed overflow, which is undefined behaviour: it
\* keeps the wrapped value (-O0, -fwrapv), it traps (-ftrapv, sanitizers), or
\* it goes on as if int were wider (optimised builds).
Overflows == {"wrap", "trap", "wide"}

\* Passed where no overflow can happen.
NoOverflow == "none"

\* What num *= -1 can meet: only INT_MIN overflows.
OverflowsOf(num) == IF num = INT_MIN THEN Overflows ELSE {NoOverflow}

\* A trap has ended the process.
Trapped == [trapped |-> TRUE]

Max(a, b) == IF a < b THEN b ELSE a

----------------------------------------------------------------------------
(* Digit access *)

count(b) == Len(b.m_data)

push_digit(b, val) == [b EXCEPT !.m_data = Append(@, ToChar(val + CH_ZERO))]

\* The throw of an invalid position is the record [thrown |-> pos].
change_digit(b, pos, val) ==
    IF pos >= 0 /\ pos < count(b)
    THEN [b EXCEPT !.m_data[pos + 1] = ToChar(val + CH_ZERO)]
    ELSE [thrown |-> pos]

get_digit(b, pos) ==
    IF pos >= 0 /\ pos < count(b) THEN b.m_data[pos + 1] - CH_ZERO ELSE 0

is_positive(b) == b.m_sign = POSITIVE

is_negative(b) == b.m_sign = NEGATIVE

----------------------------------------------------------------------------
(* Construction *)

BigIntegerDefault == [m_sign |-> POSITIVE, m_data |-> <<>>]

\* while (num) { push_digit(num % BASE); num /= 10; }
RECURSIVE IntDigits(_, _)
IntDigits(b, num) ==
    IF num = 0 THEN b
    ELSE IntDigits(push_digit(b, CRem(num, BASE)), CDiv(num, 10))

\* BigInteger(int) in a build of overflow behaviour ub.  num *= -1 overflows
\* on INT_MIN: the wrapped num is INT_MIN again and the loop pushes its
\* negative remainders; the wide num is 2147483648, whose last digit is
\* -(INT_MIN % 10) and whose other digits are those of -(INT_MIN / 10).
BigIntegerInt(num, ub) ==
    IF num = INT_MIN
    THEN CASE ub = "wrap" ->
                  IntDigits([m_sign |-> NEGATIVE, m_data |-> <<>>], INT_MIN)
           [] ub = "trap" -> Trapped
           [] ub = "wide" ->
                  IntDigits(push_digit([m_sign |-> NEGATIVE, m_data |-> <<>>],
                                       -CRem(num, BASE)),
                            -CDiv(num, 10))
    ELSE IF num < 0
    THEN IntDigits([m_sign |-> NEGATIVE, m_data |-> <<>>], -num)
    ELSE IntDigits([m_sign |-> POSITIVE, m_data |-> <<>>], num)

\* Every outcome of BigInteger(num) over the builds.
BigIntegerIntOutcomes(num) == {BigIntegerInt(num, ub) : ub \in OverflowsOf(num)}

\* strlen of the chars of a text seen through const char *: the chars from
\* position i up to the first NUL, or to the terminator after the last char.
RECURSIVE strlen(_, _)
strlen(str, i) ==
    IF i < Len(str) /\ str[i + 1] # CH_NUL THEN 1 + strlen(str, i + 1) ELSE 0

\* for (; iter < len; ++iter) if (str[iter] != '_') res.push_back(str[iter]);
RECURSIVE parseLoop(_, _, _, _)
parseLoop(str, len, iter, res) ==
    IF iter < len
    THEN parseLoop(str, len, iter + 1,
                   IF str[iter + 1] = CH_UNDERSCORE THEN res
                   ELSE Append(res, str[iter + 1]))
    ELSE res

\* parse returns the filtered chars and sets m_sign on a leading '-'; str[0]
\* of an empty text is its terminator.
parse(str) ==
    LET len == strlen(str, 0)
        neg == Len(str) > 0 /\ str[1] = CH_MINUS
    IN  [m_sign |-> IF neg THEN NEGATIVE ELSE POSITIVE,
         filtered |-> parseLoop(str, len, IF neg THEN 1 ELSE 0, <<>>)]

\* for (int i = filtered.size() - 1; i >= 0; --i) push_digit(filtered[i] - '0');
RECURSIVE textLoop(_, _, _)
textLoop(b, filtered, i) ==
    IF i >= 0
    THEN textLoop(push_digit(b, filtered[i + 1] - CH_ZERO), filtered, i - 1)
    ELSE b

\* BigInteger(const char *) and BigInteger(const string &), which hands
\* num.c_str() to parse: chars after an embedded NUL are not read.
BigIntegerText(num) ==
    LET p == parse(num)
    IN  textLoop([m_sign |-> p.m_sign, m_data |-> <<>>],
                 p.filtered, Len(p.filtered) - 1)

----------------------------------------------------------------------------
(* Comparison *)

RECURSIVE equalLoop(_, _, _)
equalLoop(this, rhs, i) ==
    IF i < count(this)
    THEN IF get_digit(this, i) # get_digit(rhs, i) THEN FALSE
         ELSE equalLoop(this, rhs, i + 1)
    ELSE TRUE

equal(this, rhs) ==
    IF count(this) # count(rhs) \/ this.m_sign # rhs.m_sign THEN FALSE
    ELSE equalLoop(this, rhs, 0)

RECURSIVE lessLoop(_, _, _)
lessLoop(this, rhs, i) ==
    IF i >= 0
    THEN IF get_digit(this, i) < get_digit(rhs, i) THEN is_positive(this)
         ELSE IF get_digit(this, i) > get_digit(rhs, i) THEN is_negative(this)
         ELSE lessLoop(this, rhs, i - 1)
    ELSE FALSE

less_than(this, rhs) ==
    IF this.m_sign # rhs.m_sign THEN is_negative(this)
    ELSE IF count(this) # count(rhs)
         THEN \/ (count(this) < count(rhs) /\ is_positive(this))
              \/ (count(this) > count(rhs) /\ is_negative(this))
         ELSE lessLoop(this, rhs, count(this) - 1)

OpEq(lhs, rhs) == equal(lhs, rhs)

OpNe(lhs, rhs) == ~OpEq(lhs, rhs)

OpLt(lhs, rhs) == less_than(lhs, rhs)

OpLe(lhs, rhs) == OpEq(lhs, rhs) \/ OpLt(lhs, rhs)

OpGt(lhs, rhs) == OpLt(rhs, lhs)

\* return (lhs == rhs) || (rhs > rhs);
OpGe(lhs, rhs) == OpEq(lhs, rhs) \/ OpGt(rhs, rhs)

----------------------------------------------------------------------------
(* Rendering and normalization *)

RECURSIVE renderLoop(_, _, _)
renderLoop(this, i, res) ==
    IF i >= 0
    THEN renderLoop(this, i - 1, Append(res, ToChar(get_digit(this, i) + CH_ZERO)))
    ELSE res

to_string(this) ==
    LET res == renderLoop(this, count(this) - 1,
                          IF is_negative(this) THEN <<CH_MINUS>> ELSE <<>>)
    IN  IF Len(res) # 0 THEN res ELSE <<CH_ZERO>>

RECURSIVE normalizeLoop(_, _)
normalizeLoop(this, i) ==
    IF i >= 0
    THEN IF get_digit(this, i) # 0 THEN this
         ELSE normalizeLoop(
                  IF Len(this.m_data) # 0
                  THEN [this EXCEPT !.m_data = SubSeq(@, 1, Len(@) - 1)]
                  ELSE this,
                  i - 1)
    ELSE this

normalize(this) == normalizeLoop(this, count(this) - 1)

----------------------------------------------------------------------------
(* Arithmetic.  Every operator call takes a stack frame: d is the depth of *)
(* the call's frame, and a call deeper than MaxDepth ends the process with *)
(* a stack overflow, which the callers pass on.                            *)

StackOverflow == [overflow |-> TRUE]

Overflowed(r) == r = StackOverflow

RECURSIVE OpAddAssign(_, _, _, _)
RECURSIVE OpSubAssign(_, _, _, _)
RECURSIVE OpSub(_, _, _)
RECURSIVE OpMulAssign(_, _, _)
RECURSIVE OpMulIntAssign(_, _, _, _)
RECURSIVE OpMulInt(_, _, _, _)

\* for (int i = 0; i < std::max(l_size, r_size); ++i) {...} if (carry) push_digit(carry);
RECURSIVE addLoop(_, _, _, _, _, _)
addLoop(this, rhs, l_size, r_size, i, carry) ==
    IF i < Max(l_size, r_size)
    THEN LET sum == get_digit(this, i) + get_digit(rhs, i) + carry
         IN  addLoop(IF i < l_size
                     THEN change_digit(this, i, CRem(sum, BASE))
                     ELSE push_digit(this, CRem(sum, BASE)),
                     rhs, l_size, r_size, i + 1, CDiv(sum, BASE))
    ELSE IF carry # 0 THEN push_digit(this, carry) ELSE this

\* operator+=; aliased is this == &rhs.
OpAddAssign(this, rhs, aliased, d) ==
    IF d > MaxDepth THEN StackOverflow
    ELSE IF aliased THEN OpMulIntAssign(this, 2, d + 1, NoOverflow)
    ELSE IF is_positive(this) # is_positive(rhs)
    THEN LET negated == OpMulInt(rhs, -1, d + 1, NoOverflow)
         IN  IF Overflowed(negated) THEN StackOverflow
             ELSE OpSubAssign(this, negated, FALSE, d + 1)
    ELSE addLoop(this, rhs, count(this), count(rhs), 0, 0)

\* operator+: res is a copy of *this, so res += rhs is never aliased.
OpAdd(this, rhs, d) ==
    IF d > MaxDepth THEN StackOverflow
    ELSE OpAddAssign(this, rhs, FALSE, d + 1)

\* for (int i = 0; i < count(); ++i) {...}
RECURSIVE subLoop(_, _, _, _)
subLoop(this, rhs, i, borrow) ==
    IF i < count(this)
    THEN LET diff == get_digit(this, i) - get_digit(rhs, i) - borrow
         IN  IF diff < 0
             THEN subLoop(change_digit(this, i, diff + 10), rhs, i + 1, 1)
             ELSE subLoop(change_digit(this, i, diff), rhs, i + 1, 0)
    ELSE this

\* operator-=; aliased is this == &rhs.
OpSubAssign(this, rhs, aliased, d) ==
    IF d > MaxDepth THEN StackOverflow
    ELSE IF aliased THEN BigIntegerInt(0, NoOverflow)
    ELSE IF is_negative(this) # is_negative(rhs)
    THEN LET negated == OpMulInt(rhs, -1, d + 1, NoOverflow)
         IN  IF Overflowed(negated) THEN StackOverflow
             ELSE OpAddAssign(this, negated, FALSE, d + 1)
    ELSE IF \/ (is_positive(this) /\ OpLt(this, rhs))
            \/ (is_negative(this) /\ OpGt(this, rhs))
    THEN LET swapped == OpSub(rhs, this, d + 1)
         IN  IF Overflowed(swapped) THEN StackOverflow
             ELSE [swapped EXCEPT !.m_sign =
                      IF is_positive(swapped) THEN NEGATIVE ELSE POSITIVE]
    ELSE normalize(subLoop(this, rhs, 0, 0))

\* operator-: res is a copy of *this, so res -= rhs is never aliased.
OpSub(this, rhs, d) ==
    IF d > MaxDepth THEN StackOverflow
    ELSE OpSubAssign(this, rhs, FALSE, d + 1)

\* Mutant of mulLoop: the shift lhs *= 10 between the digits of rhs is lost.
RECURSIVE mulLoopNoShift(_, _, _, _, _)
mulLoopNoShift(lhs, sum, rhs, i, d) ==
    IF i < count(rhs)
    THEN LET term == OpMulInt(lhs, get_digit(rhs, i), d + 1, NoOverflow)
             sum1 == IF Overflowed(term) THEN StackOverflow
                     ELSE OpAddAssign(sum, term, FALSE, d + 1)
         IN  IF Overflowed(sum1) THEN StackOverflow
             ELSE mulLoopNoShift(lhs, sum1, rhs, i + 1, d)
    ELSE sum

\* for (int i = 0; i < len; ++i) { sum += lhs * rhs.get_digit(i); lhs *= 10; }
RECURSIVE mulLoop(_, _, _, _, _)
mulLoop(lhs, sum, rhs, i, d) ==
    IF i < count(rhs)
    THEN LET term == OpMulInt(lhs, get_digit(rhs, i), d + 1, NoOverflow)
             sum1 == IF Overflowed(term) THEN StackOverflow
                     ELSE OpAddAssign(sum, term, FALSE, d + 1)
             lhs1 == IF Overflowed(sum1) THEN StackOverflow
                     ELSE OpMulIntAssign(lhs, 10, d + 1, NoOverflow)
         IN  IF Overflowed(lhs1) THEN StackOverflow
             ELSE mulLoop(lhs1, sum1, rhs, i + 1, d)
    ELSE sum

\* operator*=(const BigInteger &): rhs is read before *this is assigned, so
\* an aliased call behaves like any other.
OpMulAssign(this, rhs, d) ==
    IF d > MaxDepth THEN StackOverflow
    ELSE LET negate_it == this.m_sign # rhs.m_sign
             sum == mulLoop(this, BigIntegerInt(0, NoOverflow), rhs, 0, d)
         IN  IF Overflowed(sum) THEN StackOverflow
             ELSE IF negate_it THEN [sum EXCEPT !.m_sign = NEGATIVE]
             ELSE sum

OpMul(this, rhs, d) ==
    IF d > MaxDepth THEN StackOverflow
    ELSE OpMulAssign(this, rhs, d + 1)

\* Mutant of scalarLoop: the carry left after the last digit is not pushed.
RECURSIVE scalarLoopNoCarry(_, _, _, _, _)
scalarLoopNoCarry(this, num, len, i, carry) ==
    IF i < len
    THEN LET product == num * get_digit(this, i) + carry
         IN  scalarLoopNoCarry(change_digit(this, i, CRem(product, BASE)),
                               num, len, i + 1, CDiv(product, BASE))
    ELSE this

\* for (int i = 0; i < len; ++i) {...} if (carry) push_digit(carry);
RECURSIVE scalarLoop(_, _, _, _, _)
scalarLoop(this, num, len, i, carry) ==
    IF i < len
    THEN LET product == num * get_digit(this, i) + carry
         IN  scalarLoop(change_digit(this, i, CRem(product, BASE)),
                        num, len, i + 1, CDiv(product, BASE))
    ELSE IF carry # 0 THEN push_digit(this, carry) ELSE this

\* operator*=(const int &) in a build of overflow behaviour ub, which the
\* construction of BigInteger(num) meets when num is INT_MIN.
OpMulIntAssign(this, num, d, ub) ==
    IF d > MaxDepth THEN StackOverflow
    ELSE IF num = 0 THEN BigIntegerInt(0, NoOverflow)
    ELSE IF num = 1 THEN this
    ELSE IF BASE < num \/ num < 0
    THEN LET promoted == BigIntegerInt(num, ub)
         IN  IF promoted = Trapped THEN Trapped
             ELSE OpMulAssign(this, promoted, d + 1)
    ELSE LET negate_it == is_negative(this) /\ num > 0
             res == scalarLoop(this, num, count(this), 0, 0)
         IN  IF negate_it THEN [res EXCEPT !.m_sign = NEGATIVE] ELSE res

\* operator*(const int &)
OpMulInt(this, num, d, ub) ==
    IF d > MaxDepth THEN StackOverflow
    ELSE OpMulIntAssign(this, num, d + 1, ub)

----------------------------------------------------------------------------
(* The program.  Like src/main.cpp it constructs two BigIntegers x and y,  *)
(* then applies in-place operations to x, evaluates one expression over x  *)
(* and y and exits.  out is the last operation with its operands and its   *)
(* result; pc is "running", "exited", or "crashed" once a call has ended   *)
(* the process.                                                            *)

Vars == {"x", "y"}

\* Native ints x and y are constructed from; none overflows the constructor.
SmallInts == {-50, -5, -4, -3, 0, 3, 4}

\* Native ints assigned to x later, the extremes of int included.
NativeInts == {INT_MIN, INT_MAX, -7}

\* Native operands of operator*=(const int &) and operator*(const int &).
Scalars == {INT_MIN, -1, 0, 1, 2, 10, 12}

\* Texts read from a stream: none (the stream is at its end), "007", "-12",
\* and '1' NUL '2'.
StreamTexts == { <<>>, <<48, 48, 55>>, <<45, 49, 50>>, <<49, 0, 50>> }

\* "0", "007", "-12"
Texts == { <<48>>, <<48, 48, 55>>, <<45, 49, 50>> }

\* x and y of src/main.cpp: "100_200_100" and "300_200_100".
ExampleX == BigIntegerText(<<49, 48, 48, 95, 50, 48, 48, 95, 49, 48, 48>>)

ExampleY == BigIntegerText(<<51, 48, 48, 95, 50, 48, 48, 95, 49, 48, 48>>)

InitialValues ==
    {BigIntegerInt(n, NoOverflow) : n \in SmallInts}
        \cup {BigIntegerText(t) : t \in Texts}

NoOut == [op |-> "none"]

\* x and y are those of src/main.cpp or any two of the initial values.
Init ==
    /\ var \in [Vars -> InitialValues] \cup {[v \in Vars |->
                  IF v = "x" THEN ExampleX ELSE ExampleY]}
    /\ out = NoOut
    /\ pc = "running"
    /\ nops = 0

\* An in-place operation on x with result r; aliased tells that its operand
\* is x itself.  A stack overflow or a trap ends the process and leaves the
\* variables as they were.
InPlace(name, rhs, aliased, r) ==
    /\ pc = "running"
    /\ nops < MaxOps
    /\ count(var["x"]) <= MaxDigits
    /\ nops' = nops + 1
    /\ out' = [op |-> name, lhs |-> var["x"], rhs |-> rhs, val |-> r,
               aliased |-> aliased]
    /\ IF r = StackOverflow \/ r = Trapped
       THEN pc' = "crashed" /\ var' = var
       ELSE pc' = pc /\ var' = [var EXCEPT !["x"] = r]

\* The expression the program evaluates before it exits; died tells that the
\* evaluation ended the process instead.
Observe(name, lhs, rhs, r, died) ==
    /\ pc = "running"
    /\ out' = [op |-> name, lhs |-> lhs, rhs |-> rhs, val |-> r]
    /\ pc' = IF died THEN "crashed" ELSE "exited"
    /\ UNCHANGED <<var, nops>>

\* x = BigInteger(n)
ConstructInt ==
    \E n \in NativeInts :
        \E r \in BigIntegerIntOutcomes(n) : InPlace("int", n, FALSE, r)

\* x = y
CopyAssign == InPlace("=", var["y"], FALSE, var["y"])

\* x = std::move(y): y keeps its sign and loses its digits.
MoveAssign ==
    /\ pc = "running"
    /\ nops < MaxOps
    /\ count(var["x"]) <= MaxDigits
    /\ nops' = nops + 1
    /\ out' = [op |-> "move", lhs |-> var["x"], rhs |-> var["y"],
               val |-> var["y"], aliased |-> FALSE]
    /\ var' = [var EXCEPT !["x"] = var["y"],
                          !["y"] = [var["y"] EXCEPT !.m_data = <<>>]]
    /\ UNCHANGED pc

\* BigInteger z(std::move(v)): the temporary z takes the digits of v, and v
\* keeps its sign and loses its digits.
MoveConstruct ==
    \E v \in Vars :
        /\ pc = "running"
        /\ nops < MaxOps
        /\ nops' = nops + 1
        /\ out' = [op |-> "movector", lhs |-> var[v], rhs |-> var[v],
                   val |-> var[v], aliased |-> FALSE]
        /\ var' = [var EXCEPT ![v] = [@ EXCEPT !.m_data = <<>>]]
        /\ UNCHANGED pc

\* is >> x: x = BigInteger(str) for the text str read from the stream.
Extract ==
    \E t \in StreamTexts : InPlace(">>", t, FALSE, BigIntegerText(t))

\* x += x, x += y
AddAssign ==
    \E j \in Vars :
        InPlace("+=", var[j], j = "x", OpAddAssign(var["x"], var[j], j = "x", 1))

\* x -= x, x -= y
SubAssign ==
    \E j \in Vars :
        InPlace("-=", var[j], j = "x", OpSubAssign(var["x"], var[j], j = "x", 1))

\* x *= x, x *= y
MulAssign ==
    \E j \in Vars :
        InPlace("*=", var[j], j = "x", OpMulAssign(var["x"], var[j], 1))

\* x *= n
MulIntAssign ==
    \E n \in Scalars :
        \E ub \in OverflowsOf(n) :
            InPlace("*=int", n, FALSE, OpMulIntAssign(var["x"], n, 1, ub))

Plus ==
    \E i \in Vars, j \in Vars :
        LET r == OpAdd(var[i], var[j], 1)
        IN  Observe("+", var[i], var[j], r, Overflowed(r))

Minus ==
    \E i \in Vars, j \in Vars :
        LET r == OpSub(var[i], var[j], 1)
        IN  Observe("-", var[i], var[j], r, Overflowed(r))

Times ==
    \E i \in Vars, j \in Vars :
        LET r == OpMul(var[i], var[j], 1)
        IN  Observe("*", var[i], var[j], r, Overflowed(r))

TimesInt ==
    \E n \in Scalars :
        \E ub \in OverflowsOf(n) :
            LET r == OpMulInt(var["x"], n, 1, ub)
            IN  Observe("*int", var["x"], n, r, Overflowed(r) \/ r = Trapped)

Compare ==
    \E i \in Vars, j \in Vars :
        Observe("cmp", var[i], var[j],
                [eq |-> OpEq(var[i], var[j]), ne |-> OpNe(var[i], var[j]),
                 lt |-> OpLt(var[i], var[j]), le |-> OpLe(var[i], var[j]),
                 gt |-> OpGt(var[i], var[j]), ge |-> OpGe(var[i], var[j])],
                FALSE)

\* os << var[i]
Render ==
    \E i \in Vars : Observe("<<", var[i], var[i], to_string(var[i]), FALSE)

Next ==
    \/ ConstructInt
    \/ CopyAssign
    \/ MoveAssign
    \/ MoveConstruct
    \/ Extract
    \/ AddAssign
    \/ SubAssign
    \/ MulAssign
    \/ MulIntAssign
    \/ Plus
    \/ Minus
    \/ Times
    \/ TimesInt
    \/ Compare
    \/ Render

Spec == Init /\ [][Next]_vars

TypeOK == pc \in {"running", "exited", "crashed"}

----------------------------------------------------------------------------
(* What the claims speak of *)

Abs(n) == IF n < 0 THEN -n ELSE n

\* Native ints whose products stay far inside int.
ClaimInts == SmallInts \cup {-7}

\* The canonical decimal text of a native int: '-' iff n < 0, no leading
\* zeros, "0" for 0.  The digits of a negative n are taken without negating it.
RECURSIVE DigitsText(_)
DigitsText(n) ==
    IF n = 0 THEN <<>>
    ELSE Append(DigitsText(CDiv(n, 10)), CH_ZERO + Abs(CRem(n, 10)))

DecimalText(n) ==
    IF n = 0 THEN <<CH_ZERO>>
    ELSE IF n < 0 THEN <<CH_MINUS>> \o DigitsText(n)
    ELSE DigitsText(n)

\* The signed value of a BigInteger of at most 9 decimal digits.
HasValue(b) ==
    /\ count(b) <= 9
    /\ \A i \in 0 .. count(b) - 1 : get_digit(b, i) \in 0 .. 9

RECURSIVE Magnitude(_, _)
Magnitude(b, i) ==
    IF i >= count(b) THEN 0 ELSE get_digit(b, i) + 10 * Magnitude(b, i + 1)

Value(b) == IF is_negative(b) THEN -Magnitude(b, 0) ELSE Magnitude(b, 0)

Normalized(b) == count(b) = 0 \/ get_digit(b, count(b) - 1) # 0

\* The literals the claims compare the product of src/main.cpp with.
\* "30100230050120100"
ClaimedProductText ==
    <<51, 48, 49, 48, 48, 50, 51, 48, 48, 53, 48, 49, 50, 48, 49, 48, 48>>

\* "30080080040010000"
ProductText ==
    <<51, 48, 48, 56, 48, 48, 56, 48, 48, 52, 48, 48, 49, 48, 48, 48, 48>>

----------------------------------------------------------------------------
(* Claims *)

\* C1: for a and b built from native ints m and n, a * b and a *= b return a
\* value, its sign is Negative iff the operand signs differ, and its digits
\* are those of |m * n|.
C1_ProductSignAndMagnitude ==
    \A m \in ClaimInts, n \in ClaimInts :
        ( /\ out.op \in {"*", "*="}
          /\ out.lhs = BigIntegerInt(m, NoOverflow)
          /\ out.rhs = BigIntegerInt(n, NoOverflow) )
        => /\ ~Overflowed(out.val)
           /\ out.val.m_sign = IF (m < 0) # (n < 0) THEN NEGATIVE ELSE POSITIVE
           /\ out.val.m_data = BigIntegerInt(Abs(m * n), NoOverflow).m_data

\* C2: a + b == b + a and a * b == b * a: both sides produce a result and the
\* results compare equal with operator==.
C2_Commutative ==
    /\ out.op = "+" =>
         LET ab == OpAdd(out.lhs, out.rhs, 1)
             ba == OpAdd(out.rhs, out.lhs, 1)
         IN  ~Overflowed(ab) /\ ~Overflowed(ba) /\ OpEq(ab, ba)
    /\ out.op = "*" =>
         LET ab == OpMul(out.lhs, out.rhs, 1)
             ba == OpMul(out.rhs, out.lhs, 1)
         IN  ~Overflowed(ab) /\ ~Overflowed(ba) /\ OpEq(ab, ba)

\* C3: every call of +=, -=, *= and *= (int) terminates: none ends in the
\* unbounded recursion that overflows the stack.
C3_Terminates ==
    out.op \in {"+=", "-=", "*=", "*=int"} => ~Overflowed(out.val)

\* C4: a - a == BigInteger(0), for the aliased a -= a and for the binary a - a.
C4_SelfDifferenceIsZero ==
    ( \/ out.op = "-=" /\ out.aliased
      \/ out.op = "-" /\ out.lhs = out.rhs )
    => ~Overflowed(out.val) /\ OpEq(out.val, BigIntegerInt(0, NoOverflow))

\* C5 as claimed: for x = "100_200_100" and y = "300_200_100",
\* x + y == BigInteger(400400200), x - y == BigInteger(-200000000) and x * y
\* renders as 30100230050120100.
C5_ExampleAsClaimed ==
    (out.op \in {"+", "-", "*"} /\ out.lhs = ExampleX /\ out.rhs = ExampleY)
    => /\ ~Overflowed(out.val)
       /\ out.op = "+" => OpEq(out.val, BigIntegerInt(400400200, NoOverflow))
       /\ out.op = "-" => OpEq(out.val, BigIntegerInt(-200000000, NoOverflow))
       /\ out.op = "*" => to_string(out.val) = ClaimedProductText

\* C5 amended: for x = "100_200_100" and y = "300_200_100",
\* x + y == BigInteger(400400200), x - y == BigInteger(-200000000) and x * y
\* renders as 30080080040010000, the product of 100200100 and 300200100.
C5_Example ==
    (out.op \in {"+", "-", "*"} /\ out.lhs = ExampleX /\ out.rhs = ExampleY)
    => /\ ~Overflowed(out.val)
       /\ out.op = "+" => OpEq(out.val, BigIntegerInt(400400200, NoOverflow))
       /\ out.op = "-" => OpEq(out.val, BigIntegerInt(-200000000, NoOverflow))
       /\ out.op = "*" => to_string(out.val) = ProductText

\* C5 witness: the program has evaluated x * y for the example's x and y.
C5_Witness ==
    /\ pc = "exited"
    /\ out.op = "*"
    /\ out.lhs = ExampleX
    /\ out.rhs = ExampleY
    /\ to_string(out.val) = ProductText

\* C6: for every native int n, the minimum included, constructing a
\* BigInteger from n yields a value and rendering it yields the canonical
\* decimal text of n.
C6_IntRoundTrip ==
    /\ out.op = "int" =>
         out.val # Trapped /\ to_string(out.val) = DecimalText(out.rhs)
    /\ \A n \in ClaimInts :
         (out.op = "<<" /\ out.lhs = BigIntegerInt(n, NoOverflow)) => out.val = DecimalText(n)

\* C7: every BigInteger the program holds or an operation returns has a digit
\* sequence that is empty or ends in a non-zero (most significant) digit.
C7_Normalized ==
    /\ \A v \in Vars : Normalized(var[v])
    /\ out.op \in {"+", "-", "*", "*int"} =>
         Overflowed(out.val) \/ out.val = Trapped \/ Normalized(out.val)

\* C8: rendering a BigInteger whose digit sequence is empty yields "0",
\* whatever its sign flag is.
C8_EmptyRendersZero ==
    (out.op = "<<" /\ count(out.lhs) = 0) => out.val = <<CH_ZERO>>

\* Exactly one of a < b, a == b, a > b.
ExactlyOne(c) ==
    \/ c.lt /\ ~c.eq /\ ~c.gt
    \/ ~c.lt /\ c.eq /\ ~c.gt
    \/ ~c.lt /\ ~c.eq /\ c.gt

\* C9: exactly one of a < b, a == b, a > b holds, and the order agrees with
\* the signed values of a and b.
C9_OrderingTotality ==
    out.op = "cmp" =>
        /\ ExactlyOne(out.val)
        /\ (HasValue(out.lhs) /\ HasValue(out.rhs)) =>
             /\ out.val.lt <=> Value(out.lhs) < Value(out.rhs)
             /\ out.val.eq <=> Value(out.lhs) = Value(out.rhs)
             /\ out.val.gt <=> Value(out.lhs) > Value(out.rhs)

\* C10: lhs >= rhs iff lhs > rhs or lhs == rhs, iff not lhs < rhs; and
\* lhs <= rhs iff not lhs > rhs.
C10_GreaterOrEqual ==
    out.op = "cmp" =>
        /\ out.val.ge <=> (out.val.gt \/ out.val.eq)
        /\ out.val.ge <=> ~out.val.lt
        /\ out.val.le <=> ~out.val.gt

\* A BigInteger as the data model describes it: every stored digit in 0 .. 9
\* and no zero most-significant digit.
WellFormed(b) ==
    /\ \A i \in 0 .. count(b) - 1 : get_digit(b, i) \in 0 .. 9
    /\ Normalized(b)

\* What a *= n is to leave of a well-formed a for 2 <= n <= BASE: r is a
\* value with every digit in 0 .. 9, the sign of a, at most one digit more
\* than a and none that is a leading zero, and the magnitude |a| * n (compared
\* as ints while |a| * n fits an int: a of at most 8 digits).
FastPathResult(a, n, r) ==
    /\ ~Overflowed(r)
    /\ \A i \in 0 .. count(r) - 1 : get_digit(r, i) \in 0 .. 9
    /\ r.m_sign = a.m_sign
    /\ count(r) \in {count(a), count(a) + 1}
    /\ Normalized(r)
    /\ count(a) <= 8 => Magnitude(r, 0) = Magnitude(a, 0) * n

\* C11: for every well-formed (normalized, digits in 0 .. 9) a and every
\* native n with 2 <= n <= 10, a *= n and a * n leave every digit in 0 .. 9,
\* append at most the digit of the trailing carry, keep the sign of a and
\* yield the magnitude |a| * n.  Stated of the multiplication the program
\* has run and, while it runs, of every n applied to each of its values.
C11_ScalarFastPath ==
    /\ ( /\ out.op \in {"*=int", "*int"}
         /\ out.rhs \in 2 .. BASE
         /\ WellFormed(out.lhs) )
       => FastPathResult(out.lhs, out.rhs, out.val)
    /\ pc = "running" =>
           \A v \in Vars, n \in 2 .. BASE :
               WellFormed(var[v]) =>
                   LET r == OpMulIntAssign(var[v], n, 1, NoOverflow)
                   IN  FastPathResult(var[v], n, r)

\* C11 witness: x *= 10 has run on a negative well-formed x and has appended
\* the digit of the trailing carry.
C11_Witness ==
    /\ pc = "running"
    /\ out.op = "*=int"
    /\ out.rhs = BASE
    /\ WellFormed(out.lhs)
    /\ is_negative(out.lhs)
    /\ count(out.lhs) > 0
    /\ var["x"] = out.val
    /\ count(out.val) = count(out.lhs) + 1

====
